---- MODULE Spec2Model ----
(***************************************************************************)
(* Model of homework.py: the poll loop main() and the functions it calls   *)
(* (get_api_answer, check_response, parse_status, send_message,            *)
(* check_tokens).  The state machine starts at the call of main().  Every  *)
(* statement of the loop body is one step, so that a KeyboardInterrupt can *)
(* arrive between any two of them.                                         *)
(*                                                                         *)
(* JSON values are records with a type tag t:                              *)
(*   dict  - name/status hold the values of the keys 'homework_name' and   *)
(*           'status' (ABSENT: no such key, NONE: JSON null), n is the     *)
(*           number of keys                                                *)
(*   list  - items holds the elements, n = Len(items)                      *)
(*   str   - n is the length                                               *)
(*   int   - n is the value                                                *)
(*   null  - None                                                          *)
(***************************************************************************)
EXTENDS Integers, Sequences, FiniteSets, TLC

\* ------------------------------------------------------------------ bounds
\* longest 'homeworks' list (and top-level list) the API returns
MaxHomeworks == 2
\* 'current_date' values the API returns are 0..MaxDate
MaxDate == 1
\* int(time.time()) returns one of MaxDate+1 .. MaxDate+MaxClock
MaxClock == 2

\* --------------------------------------------------------------- constants
RETRY_TIME == 600

ABSENT == "<absent>"
NONE == "<None>"

\* HOMEWORK_STATUSES (texts transliterated to ASCII)
HOMEWORK_STATUSES ==
    [approved |-> "Rabota proverena: revjueru vse ponravilos. Ura!",
     reviewing |-> "Rabota vzyata na proverku revjuerom.",
     rejected |-> "Rabota proverena: u revjuera est zamechaniya."]

Recognized == DOMAIN HOMEWORK_STATUSES

\* ------------------------------------------------------------ JSON values
JNull == [t |-> "null", name |-> ABSENT, status |-> ABSENT, items |-> <<>>, n |-> 0]
EmptyDict == [t |-> "dict", name |-> ABSENT, status |-> ABSENT, items |-> <<>>, n |-> 0]
JStr(len) == [t |-> "str", name |-> ABSENT, status |-> ABSENT, items |-> <<>>, n |-> len]
JInt(v) == [t |-> "int", name |-> ABSENT, status |-> ABSENT, items |-> <<>>, n |-> v]
JList(xs) == [t |-> "list", name |-> ABSENT, status |-> ABSENT, items |-> xs, n |-> Len(xs)]
\* a homework record: always carries an 'id' key besides the two modelled ones
Homework(name, status) ==
    [t |-> "dict", name |-> name, status |-> status, items |-> <<>>,
     n |-> 1 + (IF name = ABSENT THEN 0 ELSE 1) + (IF status = ABSENT THEN 0 ELSE 1)]

\* bool(v)
Truthy(v) == v.n # 0

Statuses == Recognized \cup {"resubmitted", NONE, ABSENT}

HomeworkRecords ==
    {Homework("proj1", s) : s \in Statuses} \cup {Homework(ABSENT, "approved")}

SeqsUpTo(S, k) == UNION {[1..m -> S] : m \in 0..k}

HomeworkLists == {JList(xs) : xs \in SeqsUpTo(HomeworkRecords, MaxHomeworks)}

\* values of the 'homeworks' key; the key missing is t = "absent"
NoKey == [t |-> "absent", name |-> ABSENT, status |-> ABSENT, items |-> <<>>, n |-> 0]

HomeworksValues ==
    HomeworkLists
      \cup {NoKey, JNull, JInt(5), JStr(0), JStr(3), EmptyDict, Homework("proj1", "approved")}

Dates == 0..MaxDate
NoDate == -1

\* a decoded body: Response(v, hw, cd), v the top-level value; for a dict hw is
\* the value of 'homeworks' and cd that of 'current_date' (NoDate: no such key)
Response(v, hw, cd) == [v |-> v, hw |-> hw, cd |-> cd]

Responses ==
    {Response(EmptyDict, hw, cd) : hw \in HomeworksValues, cd \in Dates \cup {NoDate}}
      \cup {Response(v, NoKey, NoDate) : v \in HomeworkLists \cup {JNull, JInt(5), JStr(0), JStr(3)}}

NoResponse == Response(JNull, NoKey, NoDate)

Times == (MaxDate + 1)..(MaxDate + MaxClock)

\* ------------------------------------------------------ function results
Return(val) == [kind |-> "return", exc |-> "", val |-> val]
Raise(exc) == [kind |-> "raise", exc |-> exc, val |-> JNull]

\* response[0] / homework[0] on a value that is not a dict
Index0(v) ==
    CASE v.t = "list" -> IF v.n = 0 THEN Raise("IndexError") ELSE Return(v.items[1])
      [] v.t = "str" -> IF v.n = 0 THEN Raise("IndexError") ELSE Return(JStr(1))
      [] OTHER -> Raise("TypeError")

\* check_response with `if not answer` in place of `if answer is None`: an empty
\* list is reported as a missing key
check_response_EmptyIsMissing(resp) ==
    IF resp.v.t # "dict"
    THEN Index0(resp.v)
    ELSE LET answer == resp.hw
         IN  IF answer.t \in {"absent", "null"} \/ answer.n = 0 THEN Raise("ExpectedKeysError")
             ELSE IF answer.t # "list" THEN Raise("TheAnswerListError")
             ELSE Return(answer)

\* check_response with response.get('homeworks', []): a missing key reads as an
\* empty list
check_response_DefaultList(resp) ==
    IF resp.v.t # "dict"
    THEN Index0(resp.v)
    ELSE LET answer == IF resp.hw.t = "absent" THEN JList(<<>>) ELSE resp.hw
         IN  IF answer.t = "null" THEN Raise("ExpectedKeysError")
             ELSE IF answer.t = "int" THEN Raise("TypeError")
             ELSE IF answer.n = 0 THEN Return(EmptyDict)
             ELSE IF answer.t # "list" THEN Raise("TheAnswerListError")
             ELSE Return(answer)

\* check_response(response)
check_response(resp) ==
    IF resp.v.t # "dict"
    THEN Index0(resp.v)
    ELSE LET answer == resp.hw
         IN  IF answer.t \in {"absent", "null"} THEN Raise("ExpectedKeysError")
             ELSE IF answer.t = "int" THEN Raise("TypeError")
             ELSE IF answer.n = 0 THEN Return(EmptyDict)
             ELSE IF answer.t # "list" THEN Raise("TheAnswerListError")
             ELSE Return(answer)

\* str(x) of a field value inside an f-string
StrOf(x) == IF x \in {ABSENT, NONE} THEN "None" ELSE x

StatusPrefix == "Izmenilsya status proverki raboty <"
StatusInfix == ">. / "
FailurePrefix == "Sboi v rabote programmy: "

\* a message text is the sequence of the pieces its f-string joins
StatusMessage(name, verdict) == <<StatusPrefix, StrOf(name), StatusInfix, verdict>>
FailureMessage(exc) == <<FailurePrefix, exc>>
NoMessage == <<>>

Contains(msg, piece) == \E i \in DOMAIN msg : msg[i] = piece

\* parse_status(homework): msg is the returned text on the dict path
ParseReturn(msg) == [kind |-> "return", exc |-> "", val |-> JNull, msg |-> msg]
ParseRaise(exc) == [kind |-> "raise", exc |-> exc, val |-> JNull, msg |-> NoMessage]

\* parse_status with HOMEWORK_STATUSES.get(homework_status): an unknown status
\* is logged and a text with the verdict None is returned
parse_status_LogOnly(homework) ==
    IF homework.t # "dict"
    THEN LET r == Index0(homework)
         IN  [kind |-> r.kind, exc |-> r.exc, val |-> r.val, msg |-> NoMessage]
    ELSE IF homework.status \in {ABSENT, NONE} THEN ParseRaise("EmptyValueError")
    ELSE IF homework.status \notin Recognized
    THEN ParseReturn(StatusMessage(homework.name, NONE))
    ELSE ParseReturn(StatusMessage(homework.name, HOMEWORK_STATUSES[homework.status]))

parse_status(homework) ==
    IF homework.t # "dict"
    THEN LET r == Index0(homework)
         IN  [kind |-> r.kind, exc |-> r.exc, val |-> r.val, msg |-> NoMessage]
    ELSE LET homework_name == homework.name
             homework_status == homework.status
         IN  IF homework_status \in {ABSENT, NONE} THEN ParseRaise("EmptyValueError")
             ELSE IF homework_status \notin Recognized THEN ParseRaise("KeyError")
             ELSE ParseReturn(StatusMessage(homework_name, HOMEWORK_STATUSES[homework_status]))

\* check_tokens(): every one of the three values is set
TokenNames == {"PRACTICUM_TOKEN", "TELEGRAM_TOKEN", "TELEGRAM_CHAT_ID"}

\* check_tokens with tokens_status assigned on every turn of the loop: the last
\* value of ENV_VARS decides
check_tokens_LastDecides(env_vars) == env_vars["TELEGRAM_CHAT_ID"] # NONE

check_tokens(env_vars) == \A k \in TokenNames : env_vars[k] # NONE

\* What the network answers to requests.get / response.json():
\*   net = "error"  the request cannot complete (RequestException)
\*   net = "ok"     a response with status_code code; decode says what
\*                  response.json() does: "ok" returns body, "json" raises
\*                  json.JSONDecodeError (requests < 2.27), "requests" raises
\*                  requests.exceptions.JSONDecodeError, which is a
\*                  RequestException as well (requests >= 2.27)
Reply(net, code, decode, body) == [net |-> net, code |-> code, decode |-> decode, body |-> body]

Replies ==
    {Reply("error", 0, "ok", NoResponse), Reply("ok", 500, "ok", NoResponse),
     Reply("ok", 200, "json", NoResponse), Reply("ok", 200, "requests", NoResponse)}
      \cup {Reply("ok", 200, "ok", r) : r \in Responses}

\* the failure a reply stands for: "transport", "status" (not 200), "decode",
\* or "ok"
ReplyKind(reply) ==
    IF reply.net = "error" THEN "transport"
    ELSE IF reply.code # 200 THEN "status"
    ELSE IF reply.decode # "ok" THEN "decode"
    ELSE "ok"

\* get_api_answer(current_timestamp): kind "exit" is SystemExit
ApiResult(kind, exc, val, timestamp) ==
    [kind |-> kind, exc |-> exc, val |-> val, from_date |-> timestamp]

\* get_api_answer with the transport error raised again as it is (an
\* Exception) instead of SystemExit
get_api_answer_Reraises(ts, now, reply) ==
    LET timestamp == IF ts # 0 THEN ts ELSE now
    IN  IF reply.net = "error" THEN ApiResult("raise", "RequestException", NoResponse, timestamp)
        ELSE IF reply.code # 200
        THEN ApiResult("raise", "TheAnswerStatusCodeNot200Error", NoResponse, timestamp)
        ELSE IF reply.decode = "requests"
        THEN ApiResult("exit", "JSONDecodeError", NoResponse, timestamp)
        ELSE IF reply.decode = "json" THEN ApiResult("raise", "TypeError", NoResponse, timestamp)
        ELSE ApiResult("return", "", reply.body, timestamp)

\* get_api_answer that asks from the current time whatever it is given
get_api_answer_IgnoresTimestamp(ts, now, reply) ==
    IF reply.net = "error" THEN ApiResult("exit", "RequestException", NoResponse, now)
    ELSE IF reply.code # 200
    THEN ApiResult("raise", "TheAnswerStatusCodeNot200Error", NoResponse, now)
    ELSE IF reply.decode = "requests" THEN ApiResult("exit", "JSONDecodeError", NoResponse, now)
    ELSE IF reply.decode = "json" THEN ApiResult("raise", "TypeError", NoResponse, now)
    ELSE ApiResult("return", "", reply.body, now)

get_api_answer(ts, now, reply) ==
    LET timestamp == IF ts # 0 THEN ts ELSE now
    IN  IF reply.net = "error" THEN ApiResult("exit", "RequestException", NoResponse, timestamp)
        ELSE IF reply.code # 200
        THEN ApiResult("raise", "TheAnswerStatusCodeNot200Error", NoResponse, timestamp)
        ELSE IF reply.decode = "requests"
        THEN ApiResult("exit", "JSONDecodeError", NoResponse, timestamp)
        \* raise JSONDecodeError(msg) lacks the arguments doc and pos
        ELSE IF reply.decode = "json" THEN ApiResult("raise", "TypeError", NoResponse, timestamp)
        ELSE ApiResult("return", "", reply.body, timestamp)

\* send_message(bot, message): delivered tells whether bot.send_message
\* succeeded; a TelegramError is logged and not raised again
SendRecord(text, delivered) == [text |-> text, ok |-> delivered]

send_message(log, text, delivered) == Append(log, SendRecord(text, delivered))

\* the condition of line 165: homework and current_status != homework['status']
Cond(kind, exc, val) == [kind |-> kind, exc |-> exc, val |-> val]

status_changed(hw, status) ==
    IF ~Truthy(hw) THEN Cond("return", "", FALSE)
    ELSE IF hw.t # "dict" THEN Cond("raise", "TypeError", FALSE)
    ELSE IF hw.status = ABSENT THEN Cond("raise", "KeyError", FALSE)
    ELSE Cond("return", "", status # hw.status)

\* response['current_date']
current_date(resp) ==
    IF resp.v.t # "dict" THEN [kind |-> "raise", exc |-> "TypeError", val |-> NoDate]
    ELSE IF resp.cd = NoDate THEN [kind |-> "raise", exc |-> "KeyError", val |-> NoDate]
    ELSE [kind |-> "return", exc |-> "", val |-> resp.cd]

\* ------------------------------------------------------------------ state
VARIABLES
    pc,                 \* the statement main() executes next
    env,                \* the three environment values
    current_timestamp, current_status, errors,      \* locals of main()
    response, homework, message, error,             \* locals of the loop body
    from_date,          \* query parameter of the last request (NoDate: none yet)
    after_failure,      \* the cycle of the request before ended in the handler
    reply_kind,         \* what the cycle's request met: see ReplyKind
    sent,               \* send_message calls of the cycle: text and outcome
    failure_sends,      \* send_message calls with the failure text, whole run
    sleeps,             \* time.sleep calls of the cycle
    slept,              \* seconds slept in the cycle
    nochange_logged,    \* the cycle logged 'Poka izmenenii net'
    start,              \* current_status, errors, current_timestamp at the fetch
    raised_in,          \* function whose exception the generic handler caught
    interrupted,        \* the cycle was ended by KeyboardInterrupt
    exit_cause, exit_code

vars ==
    <<pc, env, current_timestamp, current_status, errors, response, homework,
      message, error, from_date, after_failure, reply_kind, sent, failure_sends, sleeps, slept,
      nochange_logged, start, raised_in, interrupted, exit_cause, exit_code>>

locals == <<response, homework, message, error>>
poll_state == <<current_timestamp, current_status, errors>>
cycle_log == <<from_date, reply_kind, sent, sleeps, slept, nochange_logged, start, raised_in, interrupted>>
exit_state == <<exit_cause, exit_code>>

\* statements inside the try block (lines 163-173)
TryBody ==
    {"fetch", "check", "cond", "parse", "send", "set_status", "set_ts1",
     "sleep1", "log", "set_ts2", "sleep2"}

\* statements where a KeyboardInterrupt is caught by no handler
Unprotected == {"main", "prompt", "except", "h_send", "h_sleep", "else", "loop"}

Snapshot == [status |-> current_status, errors |-> errors, ts |-> current_timestamp]

Init ==
    /\ pc = "main"
    /\ env \in [TokenNames -> {"set", NONE}]
    /\ current_timestamp = 0
    /\ current_status = "reviewing"
    /\ errors = TRUE
    /\ response = NoResponse
    /\ homework = JNull
    /\ message = NoMessage
    /\ error = ""
    /\ from_date = NoDate
    /\ after_failure = FALSE
    /\ reply_kind = ""
    /\ sent = <<>>
    /\ failure_sends = 0
    /\ sleeps = 0
    /\ slept = 0
    /\ nochange_logged = FALSE
    /\ start = Snapshot
    /\ raised_in = ""
    /\ interrupted = FALSE
    /\ exit_cause = ""
    /\ exit_code = 0

\* the process ends: sys.exit, an uncaught exception, or main() returning
Exit(cause, code) ==
    /\ pc' = "exited"
    /\ exit_cause' = cause
    /\ exit_code' = code

\* an exception of class exc leaves the try block for `except Exception`
Except(exc, origin) ==
    /\ pc' = "except"
    /\ error' = exc
    /\ raised_in' = origin

\* lines 155-160
Main ==
    /\ pc = "main"
    /\ IF check_tokens(env)
       THEN /\ \E now \in Times : current_timestamp' = now
            /\ current_status' = "reviewing"
            /\ errors' = TRUE
            /\ pc' = "fetch"
            /\ UNCHANGED exit_state
       ELSE /\ Exit("config", 0)
            /\ UNCHANGED poll_state
    /\ start' = [status |-> current_status', errors |-> errors', ts |-> current_timestamp']
    /\ UNCHANGED <<env, after_failure, locals, from_date, reply_kind, sent, failure_sends, sleeps, slept,
                   nochange_logged, raised_in, interrupted>>

\* line 163
Fetch ==
    /\ pc = "fetch"
    /\ \E now \in Times, reply \in Replies :
         LET r == get_api_answer(current_timestamp, now, reply)
         IN  /\ from_date' = r.from_date
             /\ reply_kind' = ReplyKind(reply)
             /\ CASE r.kind = "return" ->
                       /\ response' = r.val
                       /\ pc' = "check"
                       /\ UNCHANGED <<error, raised_in, exit_state>>
                  [] r.kind = "raise" ->
                       /\ Except(r.exc, "get_api_answer")
                       /\ UNCHANGED <<response, exit_state>>
                  [] OTHER ->
                       /\ Exit(ReplyKind(reply), 1)
                       /\ UNCHANGED <<response, error, raised_in>>
    /\ UNCHANGED <<env, after_failure, poll_state, homework, message, sent, failure_sends, sleeps,
                   slept, nochange_logged, start, interrupted>>

\* line 164
Check ==
    /\ pc = "check"
    /\ LET r == check_response(response)
       IN  IF r.kind = "return"
           THEN /\ homework' = r.val
                /\ pc' = "cond"
                /\ UNCHANGED <<error, raised_in>>
           ELSE /\ Except(r.exc, "check_response")
                /\ UNCHANGED homework
    /\ UNCHANGED <<env, after_failure, poll_state, response, message, from_date, reply_kind, sent, failure_sends,
                   sleeps, slept, nochange_logged, start, interrupted, exit_state>>

\* line 165
Condition ==
    /\ pc = "cond"
    /\ LET c == status_changed(homework, current_status)
       IN  IF c.kind = "return"
           THEN /\ pc' = IF c.val THEN "parse" ELSE "log"
                /\ UNCHANGED <<error, raised_in>>
           ELSE Except(c.exc, "main")
    /\ UNCHANGED <<env, after_failure, poll_state, response, homework, message, from_date, reply_kind, sent,
                   failure_sends, sleeps, slept, nochange_logged, start, interrupted,
                   exit_state>>

\* line 166
Parse ==
    /\ pc = "parse"
    /\ LET r == parse_status(homework)
       IN  IF r.kind = "return"
           THEN /\ message' = r.msg
                /\ pc' = "send"
                /\ UNCHANGED <<error, raised_in>>
           ELSE /\ Except(r.exc, "parse_status")
                /\ UNCHANGED message
    /\ UNCHANGED <<env, after_failure, poll_state, response, homework, from_date, reply_kind, sent, failure_sends,
                   sleeps, slept, nochange_logged, start, interrupted, exit_state>>

\* line 167 left out: the status is recorded without a send
Send_Skipped ==
    /\ pc = "send"
    /\ pc' = "set_status"
    /\ UNCHANGED <<env, after_failure, poll_state, locals, cycle_log, failure_sends, exit_state>>

\* line 167
Send ==
    /\ pc = "send"
    /\ \E delivered \in BOOLEAN : sent' = send_message(sent, message, delivered)
    /\ pc' = "set_status"
    /\ UNCHANGED <<env, after_failure, poll_state, locals, from_date, reply_kind, failure_sends, sleeps, slept,
                   nochange_logged, start, raised_in, interrupted, exit_state>>

\* line 168
SetStatus ==
    /\ pc = "set_status"
    /\ current_status' = homework.status
    /\ pc' = "set_ts1"
    /\ UNCHANGED <<env, after_failure, current_timestamp, errors, locals, cycle_log, failure_sends,
                   exit_state>>

\* current_timestamp = response['current_date'], then the statement at `next`
SetTimestamp(next) ==
    LET d == current_date(response)
    IN  IF d.kind = "return"
        THEN /\ current_timestamp' = d.val
             /\ pc' = next
             /\ UNCHANGED <<error, raised_in>>
        ELSE /\ Except(d.exc, "main")
             /\ UNCHANGED current_timestamp

\* time.sleep(RETRY_TIME), then the statement at `next`
Sleep(next) ==
    /\ sleeps' = sleeps + 1
    /\ slept' = slept + RETRY_TIME
    /\ pc' = next

\* line 169
SetTs1 ==
    /\ pc = "set_ts1"
    /\ SetTimestamp("sleep1")
    /\ UNCHANGED <<env, after_failure, current_status, errors, response, homework, message, from_date, reply_kind,
                   sent, failure_sends, sleeps, slept, nochange_logged, start,
                   interrupted, exit_state>>

\* lines 170 and 173: the two sleeps of the try block
BodySleep ==
    /\ pc \in {"sleep1", "sleep2"}
    /\ Sleep(IF pc = "sleep1" THEN "log" ELSE "else")
    /\ UNCHANGED <<env, after_failure, poll_state, locals, from_date, reply_kind, sent, failure_sends,
                   nochange_logged, start, raised_in, interrupted, exit_state>>

\* line 171
Log ==
    /\ pc = "log"
    /\ nochange_logged' = TRUE
    /\ pc' = "set_ts2"
    /\ UNCHANGED <<env, after_failure, poll_state, locals, from_date, reply_kind, sent, failure_sends, sleeps,
                   slept, start, raised_in, interrupted, exit_state>>

\* line 172
SetTs2 ==
    /\ pc = "set_ts2"
    /\ SetTimestamp("sleep2")
    /\ UNCHANGED <<env, after_failure, current_status, errors, response, homework, message, from_date, reply_kind,
                   sent, failure_sends, sleeps, slept, nochange_logged, start,
                   interrupted, exit_state>>

\* lines 192-193
Else ==
    /\ pc = "else"
    /\ pc' = "loop"
    /\ UNCHANGED <<env, after_failure, poll_state, locals, cycle_log, failure_sends, exit_state>>

\* the handler without line 188: the one-shot flag is never cleared
Handler_KeepsFlag ==
    /\ pc = "except"
    /\ message' = FailureMessage(error)
    /\ pc' = IF errors THEN "h_send" ELSE "h_sleep"
    /\ UNCHANGED <<env, after_failure, poll_state, response, homework, error, cycle_log,
                   failure_sends, exit_state>>

\* the handler restarting the window: current_timestamp = int(time.time())
Handler_ResetsTimestamp ==
    /\ pc = "except"
    /\ message' = FailureMessage(error)
    /\ \E now \in Times : current_timestamp' = now
    /\ IF errors
       THEN /\ errors' = FALSE
            /\ pc' = "h_send"
       ELSE /\ pc' = "h_sleep"
            /\ UNCHANGED errors
    /\ UNCHANGED <<env, after_failure, current_status, response, homework, error,
                   cycle_log, failure_sends, exit_state>>

\* lines 185-188: the handler builds the text and tests the one-shot flag
Handler ==
    /\ pc = "except"
    /\ message' = FailureMessage(error)
    /\ IF errors
       THEN /\ errors' = FALSE
            /\ pc' = "h_send"
       ELSE /\ pc' = "h_sleep"
            /\ UNCHANGED errors
    /\ UNCHANGED <<env, after_failure, current_timestamp, current_status, response, homework, error,
                   cycle_log, failure_sends, exit_state>>

\* line 189
HandlerSend ==
    /\ pc = "h_send"
    /\ \E delivered \in BOOLEAN : sent' = send_message(sent, message, delivered)
    /\ failure_sends' = failure_sends + 1
    /\ pc' = "h_sleep"
    /\ UNCHANGED <<env, after_failure, poll_state, locals, from_date, reply_kind, sleeps, slept, nochange_logged,
                   start, raised_in, interrupted, exit_state>>

\* lines 190-191
HandlerSleep ==
    /\ pc = "h_sleep"
    /\ Sleep("loop")
    /\ UNCHANGED <<env, after_failure, poll_state, locals, from_date, reply_kind, sent, failure_sends,
                   nochange_logged, start, raised_in, interrupted, exit_state>>

\* KeyboardInterrupt inside the try block: line 175
Interrupt ==
    /\ pc \in TryBody
    /\ pc' = "prompt"
    /\ interrupted' = TRUE
    /\ UNCHANGED <<env, after_failure, poll_state, locals, from_date, reply_kind, sent, failure_sends, sleeps,
                   slept, nochange_logged, start, raised_in, exit_state>>

\* KeyboardInterrupt anywhere else propagates out of main()
UncaughtInterrupt ==
    /\ pc \in Unprotected
    /\ Exit("interrupt", 130)
    /\ UNCHANGED <<env, after_failure, poll_state, locals, cycle_log, failure_sends>>

StopAnswers == {"Y", "y"}
Answers == {"Y", "y", "N", "n", "q"}

\* lines 176-183
Prompt ==
    /\ pc = "prompt"
    /\ \E stop_bot \in Answers :
         IF stop_bot \in StopAnswers
         THEN Exit("stopped", 0)
         ELSE /\ pc' = "loop"
              /\ UNCHANGED exit_state
    /\ UNCHANGED <<env, after_failure, poll_state, locals, cycle_log, failure_sends>>

\* line 161: the next iteration.  The locals of the body are dead here (each is
\* assigned before it is read), so they and the cycle's log start afresh;
\* from_date stays until the next request replaces it.
Loop ==
    /\ pc = "loop"
    /\ pc' = "fetch"
    /\ response' = NoResponse
    /\ homework' = JNull
    /\ message' = NoMessage
    /\ error' = ""
    /\ after_failure' = IF reply_kind = "" THEN after_failure ELSE error # ""
    /\ reply_kind' = ""
    /\ sent' = <<>>
    /\ sleeps' = 0
    /\ slept' = 0
    /\ nochange_logged' = FALSE
    /\ start' = Snapshot
    /\ raised_in' = ""
    /\ interrupted' = FALSE
    /\ UNCHANGED <<env, poll_state, from_date, failure_sends, exit_state>>

Next ==
    \/ Main \/ Fetch \/ Check \/ Condition \/ Parse \/ Send \/ SetStatus
    \/ SetTs1 \/ Log \/ SetTs2 \/ BodySleep \/ Else
    \/ Handler \/ HandlerSend \/ HandlerSleep
    \/ Interrupt \/ UncaughtInterrupt \/ Prompt \/ Loop

Spec == Init /\ [][Next]_vars

\* ------------------------------------------------------------------ claims

\* the cycle's response is a mapping whose 'homeworks' is a non-empty list
HasApiRecord == response.v.t = "dict" /\ response.hw.t = "list" /\ response.hw.n > 0

\* the homework record the API returned: the first of the list
ApiRecord == response.hw.items[1]

IsStatusText(text) == Len(text) > 0 /\ text[1] = StatusPrefix
IsFailureText(text) == Len(text) > 0 /\ text[1] = FailurePrefix

\* the iteration ran to its end (line 173/193 or line 191) without an interrupt
CycleEnded == pc = "loop" /\ ~interrupted

InHandler == pc \in {"except", "h_send", "h_sleep"}

\* C1: in a cycle whose homework record has a recognized status that differs
\* from current_status (and whose response carries current_date), send_message
\* is called exactly once, with a text that holds the record's homework_name and
\* the verdict of its status.
C1_ChangedStatusNotifiedOnce ==
    (CycleEnded /\ HasApiRecord /\ response.cd # NoDate
       /\ ApiRecord.status \in Recognized /\ ApiRecord.status # start.status)
      => /\ Len(sent) = 1
         /\ Contains(sent[1].text, StrOf(ApiRecord.name))
         /\ Contains(sent[1].text, HOMEWORK_STATUSES[ApiRecord.status])

\* C2: in a cycle whose homework record has the status current_status had at
\* the fetch, no message reaches the chat.
C2_UnchangedStatusSendsNothing ==
    (HasApiRecord /\ ApiRecord.status = start.status)
      => \A i \in DOMAIN sent : ~sent[i].ok

\* C3: over the whole run send_message is called with the failure text at most
\* once, and the cycle's sends hold no more failure texts than that.
C3_FailureMessageAtMostOnce ==
    /\ failure_sends <= 1
    /\ Cardinality({i \in DOMAIN sent : IsFailureText(sent[i].text)}) <= failure_sends

\* C3 witness: a later cycle fails with another error after the failure
\* message was sent, and the handler has gone past the send.
C3_SecondFailureReached ==
    /\ pc = "h_sleep"
    /\ failure_sends = 1
    /\ sent = <<>>
    /\ error = "KeyError"
    /\ message # NoMessage

\* C4 as claimed: current_status changes only right after bot.send_message
\* delivered the notification of the new status.
C4_StatusChangedOnlyAfterDelivery ==
    [][current_status' # current_status
         => /\ current_status' \in Recognized
            /\ Len(sent) > 0
            /\ sent[Len(sent)].text
                 = StatusMessage(homework.name, HOMEWORK_STATUSES[current_status'])
            /\ sent[Len(sent)].ok]_vars

\* C4 amended: current_status changes only right after send_message was called
\* with the notification of the new status, delivered or not.
C4_StatusChangedOnlyAfterSendCall ==
    [][current_status' # current_status
         => /\ current_status' \in Recognized
            /\ Len(sent) > 0
            /\ sent[Len(sent)].text
                 = StatusMessage(homework.name, HOMEWORK_STATUSES[current_status'])]_vars

\* C4 witness: a status whose notification failed to deliver has been recorded.
C4_UndeliveredStatusRecorded ==
    /\ pc = "set_ts1"
    /\ current_status # start.status
    /\ Len(sent) = 1
    /\ IsStatusText(sent[1].text)
    /\ ~sent[1].ok

\* C5: the process ends only by a missing configuration value or a transport
\* failure (and by what is no failure: the confirmed stop, an interrupt
\* outside the try block).
C5_OnlyConfigOrTransportTerminates ==
    pc = "exited" => exit_cause \in {"config", "transport", "stopped", "interrupt"}

\* C6: once the request could not complete the process has ended, with no
\* sleep, no send and no run of the generic handler in that cycle, and the
\* ended process takes no further step.
C6_TransportFailureTerminates ==
    /\ [](reply_kind = "transport"
            => /\ pc = "exited"
               /\ exit_cause = "transport"
               /\ sleeps = 0
               /\ sent = <<>>
               /\ error = ""
               /\ raised_in = ""
               /\ message = NoMessage
               /\ errors = start.errors)
    /\ [][pc # "exited"]_vars

\* C6 witness: a transport failure in a cycle after the first.
C6_TransportFailureLater ==
    /\ reply_kind = "transport"
    /\ pc = "exited"
    /\ current_status # "reviewing"
    /\ ~errors

\* the homework handed to parse_status has a status that is present and is
\* not one of the three codes
UnknownStatus ==
    homework.t = "dict" /\ homework.status \notin Recognized \cup {ABSENT, NONE}

\* C7: after parse_status was given a record of unknown status, the exception
\* it raised is UnknownStatusError and no message reaches the chat in the cycle.
C7_UnknownStatusRaisesUnknownStatusError ==
    (UnknownStatus /\ raised_in = "parse_status")
      => /\ error = "UnknownStatusError"
         /\ \A i \in DOMAIN sent : ~sent[i].ok

\* C8: what check_response returned for a mapping with a 'homeworks' list is
\* the first record of the list, or {} for the empty list.
C8_ReturnsFirstRecord ==
    (pc = "cond" /\ response.v.t = "dict" /\ response.hw.t = "list")
      => homework = IF response.hw.n = 0 THEN EmptyDict ELSE response.hw.items[1]

\* the cycle's response is a mapping with an empty 'homeworks' list and a
\* 'current_date'
EmptyListResponse ==
    response.v.t = "dict" /\ response.hw = JList(<<>>) /\ response.cd # NoDate

\* C9: a cycle with an empty 'homeworks' list calls send_message never, raises
\* nothing (the handler is not entered), keeps the flag and current_status,
\* skips the status-change branch, and has current_timestamp = current_date
\* from line 172 on.
C9_EmptyListCycle ==
    EmptyListResponse
      => /\ sent = <<>>
         /\ ~InHandler
         /\ error = "" /\ raised_in = ""
         /\ errors = start.errors
         /\ current_status = start.status
         /\ pc \notin {"parse", "send", "set_status", "set_ts1", "sleep1"}
         /\ exit_cause \in {"", "stopped", "interrupt"}
         /\ (pc \in {"sleep2", "else", "loop"} /\ ~interrupted
               => current_timestamp = response.cd)

\* C9 witness: such a cycle has ended and moved current_timestamp.
C9_EmptyListCycleEnded ==
    /\ EmptyListResponse
    /\ CycleEnded
    /\ nochange_logged
    /\ current_timestamp # start.ts

\* the cycle's response is a mapping without the key 'homeworks'
LacksHomeworks == response.v.t = "dict" /\ response.hw.t = "absent"

\* C10: once check_response has run on a mapping without 'homeworks',
\* ExpectedKeysError was raised by it and homework was bound to no value.
C10_MissingKeyRaises ==
    (LacksHomeworks /\ pc # "check" /\ ~interrupted)
      => /\ error = "ExpectedKeysError"
         /\ raised_in = "check_response"
         /\ homework = JNull
         /\ pc \in {"except", "h_send", "h_sleep", "loop", "exited"}

\* C10 witness: the handler holds the ExpectedKeysError of such a response.
C10_MissingKeyRaised ==
    /\ LacksHomeworks
    /\ pc = "except"
    /\ error = "ExpectedKeysError"
    /\ raised_in = "check_response"

\* the cycle's response is a mapping whose 'homeworks' is present and is no
\* sequence: a number, a string or a mapping
WrongShape == response.v.t = "dict" /\ response.hw.t \in {"int", "str", "dict"}

\* C11: once check_response has run on a mapping whose 'homeworks' is no
\* sequence, TheAnswerListError was raised by it.
C11_WrongShapeRaises ==
    (WrongShape /\ pc # "check" /\ ~interrupted)
      => /\ error = "TheAnswerListError"
         /\ raised_in = "check_response"

\* C12: every KeyboardInterrupt that arrives while the loop runs (after the
\* start-up, not at the prompt itself) brings main() to the prompt, and the
\* prompt ends the loop on 'Y' and otherwise returns to the loop with the poll
\* state as it was.
C12_InterruptPrompts ==
    /\ [][(pc \notin {"main", "prompt"} /\ (Interrupt \/ UncaughtInterrupt))
            => pc' = "prompt"]_vars
    /\ [][pc = "prompt"
            => /\ pc' \in {"exited", "loop"}
               /\ UNCHANGED poll_state
               /\ pc' = "exited" => exit_cause' = "stopped"]_vars

\* C13: the exit code is 0 after the confirmed stop and is not 0 after a
\* missing configuration value or a transport failure.
C13_ExitCodes ==
    pc = "exited"
      => /\ exit_cause = "stopped" => exit_code = 0
         /\ exit_cause \in {"config", "transport"} => exit_code # 0

\* C14: with one of the three values missing main() never enters the loop: no
\* request is made and send_message is never called.
C14_MissingTokenNeverPolls ==
    (\E k \in TokenNames : env[k] = NONE)
      => /\ pc \in {"main", "exited"}
         /\ from_date = NoDate /\ reply_kind = ""
         /\ sent = <<>> /\ failure_sends = 0
         /\ pc = "exited" => exit_cause \in {"config", "interrupt"}

\* C14 witness: main() has ended because only CHAT_ID is missing.
C14_OnlyChatIdMissing ==
    /\ pc = "exited"
    /\ exit_cause = "config"
    /\ env["TELEGRAM_CHAT_ID"] = NONE
    /\ env["PRACTICUM_TOKEN"] # NONE /\ env["TELEGRAM_TOKEN"] # NONE

\* a status notification of the cycle reached the chat
StatusDelivered == \E i \in DOMAIN sent : IsStatusText(sent[i].text) /\ sent[i].ok

\* send_message was called with a status notification in the cycle
StatusSent == \E i \in DOMAIN sent : IsStatusText(sent[i].text)

\* C15: after an interrupt answered with other than 'Y' the cycle is not left
\* half applied: a delivered status notification has its status in
\* current_status, and a changed current_status comes with current_timestamp
\* moved to the response's current_date.
C15_InterruptLeavesNoPartialCycle ==
    (pc = "loop" /\ interrupted)
      => /\ StatusDelivered => current_status = homework.status
         /\ current_status # start.status => current_timestamp = response.cd

\* the cycle met a homework record whose status is the one current_status had
NoStatusChange ==
    HasApiRecord /\ response.cd # NoDate /\ ApiRecord.status = start.status

\* C18: at the end of a cycle that sent a status notification there was one
\* sleep and no 'no changes' entry; at the end of a cycle with no status
\* change there was the 'no changes' entry and one sleep.
C18_PathsExclusive ==
    CycleEnded
      => /\ StatusSent => (sleeps = 1 /\ slept = RETRY_TIME /\ ~nochange_logged)
         /\ NoStatusChange => (sleeps = 1 /\ slept = RETRY_TIME /\ nochange_logged)

\* C19: at the end of a cycle in which bot.send_message failed on the status
\* notification the handler was not entered, the flag is as it was, the
\* timestamp is the response's current_date and the send was made once.
C19_FailedSendCycleContinues ==
    (CycleEnded /\ StatusSent /\ ~StatusDelivered)
      => /\ error = "" /\ raised_in = ""
         /\ errors = start.errors
         /\ current_timestamp = response.cd
         /\ Len(sent) = 1

\* C20: current_status is always one of the three codes, and it is assigned
\* only the status of a record for which parse_status returned the text that
\* message holds.
C20_StatusRecognized ==
    /\ [](current_status \in Recognized)
    /\ [][current_status' # current_status
            => /\ parse_status(homework).kind = "return"
               /\ message = parse_status(homework).msg
               /\ current_status' = homework.status]_vars

\* C20 witness: with current_status already changed, parse_status has refused
\* a record of unknown status.
C20_UnknownAfterChange ==
    /\ pc = "except"
    /\ raised_in = "parse_status"
    /\ UnknownStatus
    /\ current_status = "rejected"

\* a request was made in the cycle
Requested == reply_kind # ""

\* the cycle ran to its end with no exception
CycleCompleted == CycleEnded /\ Requested /\ error = ""

\* the cycle ended in the generic handler
CycleFailed == pc = "loop" /\ error # ""

\* C16 as claimed: a completed cycle leaves current_timestamp at the response's
\* current_date, and every request carries the current_timestamp of its fetch,
\* 0 included.
C16_FromDateIsTimestamp ==
    /\ CycleCompleted => current_timestamp = response.cd
    /\ Requested => from_date = start.ts

\* C16 amended: ... every request carries the current_timestamp of its fetch
\* when that is not 0, and the current time when it is 0.
C16_FromDateIsTimestampOrNow ==
    /\ CycleCompleted => current_timestamp = response.cd
    /\ Requested => from_date = start.ts \/ (start.ts = 0 /\ from_date \in Times)

\* C16 witness: a cycle fetched with current_timestamp 0 has completed.
C16_FetchedFromZero ==
    /\ CycleCompleted
    /\ start.ts = 0
    /\ from_date \in Times
    /\ current_timestamp = response.cd

\* C17 as claimed: a cycle that ended in the handler left current_timestamp as
\* it was and slept once, and the request after it carries the from_date of
\* the failed cycle's request.
C17_FailedCycleRequeried ==
    /\ [](CycleFailed
            => current_timestamp = start.ts /\ sleeps = 1 /\ slept = RETRY_TIME)
    /\ [][(pc = "fetch" /\ after_failure /\ reply_kind' # "")
            => from_date' = from_date]_vars

\* C17 amended: ... the request after it carries the same from_date when
\* current_timestamp is not 0, and the current time when it is 0.
C17_FailedCycleRequeriedUnlessZero ==
    /\ [](CycleFailed
            => current_timestamp = start.ts /\ sleeps = 1 /\ slept = RETRY_TIME)
    /\ [][(pc = "fetch" /\ after_failure /\ reply_kind' # "")
            => IF current_timestamp # 0
               THEN from_date' = from_date /\ from_date' = current_timestamp
               ELSE from_date' \in Times]_vars

\* C17 witness: after a failed cycle the same window has been asked for again.
C17_SameWindowAgain ==
    /\ after_failure
    /\ pc = "check"
    /\ from_date = current_timestamp
    /\ current_timestamp \in Dates
    /\ ~errors

====
